---------------------------- MODULE Spec2Model ----------------------------
(***************************************************************************)
(* Model of the payroll extraction engine: PayrollPDFParser                *)
(* (src/pdf_parser.py) and the field mapper map_fields with the built-in   *)
(* mappings of create_default_templates (src/main.py).                     *)
(*                                                                         *)
(* A text (Python str) is a sequence of Unicode code points, so that the   *)
(* regular expressions of the parser are matched character by character    *)
(* with the backtracking order of Python's re module.  A Python value      *)
(* stored in a dict is PyStr(s) or PyFloat(m, e); a dict is a function     *)
(* from key strings to values.                                             *)
(***************************************************************************)
EXTENDS Integers, Sequences, FiniteSets, TLC

VARIABLES
    doc,            \* the PDF behind pdf_path: [readable, pages]
    text_pages,     \* self.text_pages
    job_info,       \* self.job_info
    employees,      \* self.employees
    inst,           \* number of the PayrollPDFParser instance in use
    calls,          \* public method calls made on this instance so far
    steps,          \* operations performed in this run
    last,           \* outcome of the most recent operation
    parse_results   \* every value returned by parse(), in call order

vars == <<doc, text_pages, job_info, employees, inst, calls, steps, last,
          parse_results>>

---------------------------------------------------------------------------
(* Bounds of the model.                                                    *)

MaxPages == 2
MaxCalls == 3

---------------------------------------------------------------------------
(* Characters and character classes of the regular expressions.  A text is *)
(* a sequence of Unicode code points (a Python str).                       *)

\* The characters a TLA+ string literal can hold: the printable ASCII
\* characters but "`", code points 32..95 and 97..126 in order, and four
\* escapes.
Ascii32 == " !\"#$%&'()*+,-./0123456789:;<=>?@ABCDEFGHIJKLMNOPQRSTUVWXYZ[\\]^_"
Ascii97 == "abcdefghijklmnopqrstuvwxyz{|}~"
Ord == [c \in {SubSeq(Ascii32, i, i) : i \in 1..Len(Ascii32)} |->
            31 + (CHOOSE i \in 1..Len(Ascii32) : SubSeq(Ascii32, i, i) = c)]
       @@ [c \in {SubSeq(Ascii97, i, i) : i \in 1..Len(Ascii97)} |->
            96 + (CHOOSE i \in 1..Len(Ascii97) : SubSeq(Ascii97, i, i) = c)]
       @@ ("\t" :> 9) @@ ("\n" :> 10) @@ ("\f" :> 12) @@ ("\r" :> 13)
\* A str literal of the source, as a text.
Text(s) == [i \in 1..Len(s) |-> Ord[SubSeq(s, i, i)]]

Upper == 65..90                       \* A-Z
Lower == 97..122                      \* a-z
\* The code points for which str.isspace() holds, which are also those \s
\* matches in a str pattern.
Whitespace ==
    {9, 10, 11, 12, 13, 28, 29, 30, 31, 32, 133, 160, 5760, 8192, 8193, 8194,
     8195, 8196, 8197, 8198, 8199, 8200, 8201, 8202, 8232, 8233, 8239, 8287,
     12288}
\* The Unicode decimal digits come in runs of ten, 0 to 9; the code point of
\* the zero of each run (48 is ASCII "0").
DigitZeros ==
    {48, 1632, 1776, 1984, 2406, 2534, 2662, 2790, 2918, 3046, 3174, 3302,
     3430, 3558, 3664, 3792, 3872, 4160, 4240, 6112, 6160, 6470, 6608, 6784,
     6800, 6992, 7088, 7232, 7248, 42528, 43216, 43264, 43472, 43504, 43600,
     44016, 65296, 66720, 68912, 69734, 69872, 69942, 70096, 70384, 70736,
     70864, 71248, 71360, 71472, 71904, 72016, 72784, 73040, 73120, 92768,
     92864, 93008, 120782, 120792, 120802, 120812, 120822, 123200, 123632,
     125264, 130032}
Digit == UNION {z..(z + 9) : z \in DigitZeros}
\* The code points \w matches in a str pattern (alphanumerics and "_"), as
\* inclusive ranges in increasing order.
WordRanges == <<
    <<48,57>>, <<65,90>>, <<95,95>>, <<97,122>>, <<170,170>>, <<178,179>>,
    <<181,181>>, <<185,186>>, <<188,190>>, <<192,214>>, <<216,246>>,
    <<248,705>>, <<710,721>>, <<736,740>>, <<748,748>>, <<750,750>>,
    <<880,884>>, <<886,887>>, <<890,893>>, <<895,895>>, <<902,902>>,
    <<904,906>>, <<908,908>>, <<910,929>>, <<931,1013>>, <<1015,1153>>,
    <<1162,1327>>, <<1329,1366>>, <<1369,1369>>, <<1376,1416>>,
    <<1488,1514>>, <<1519,1522>>, <<1568,1610>>, <<1632,1641>>,
    <<1646,1647>>, <<1649,1747>>, <<1749,1749>>, <<1765,1766>>,
    <<1774,1788>>, <<1791,1791>>, <<1808,1808>>, <<1810,1839>>,
    <<1869,1957>>, <<1969,1969>>, <<1984,2026>>, <<2036,2037>>,
    <<2042,2042>>, <<2048,2069>>, <<2074,2074>>, <<2084,2084>>,
    <<2088,2088>>, <<2112,2136>>, <<2144,2154>>, <<2160,2183>>,
    <<2185,2190>>, <<2208,2249>>, <<2308,2361>>, <<2365,2365>>,
    <<2384,2384>>, <<2392,2401>>, <<2406,2415>>, <<2417,2432>>,
    <<2437,2444>>, <<2447,2448>>, <<2451,2472>>, <<2474,2480>>,
    <<2482,2482>>, <<2486,2489>>, <<2493,2493>>, <<2510,2510>>,
    <<2524,2525>>, <<2527,2529>>, <<2534,2545>>, <<2548,2553>>,
    <<2556,2556>>, <<2565,2570>>, <<2575,2576>>, <<2579,2600>>,
    <<2602,2608>>, <<2610,2611>>, <<2613,2614>>, <<2616,2617>>,
    <<2649,2652>>, <<2654,2654>>, <<2662,2671>>, <<2674,2676>>,
    <<2693,2701>>, <<2703,2705>>, <<2707,2728>>, <<2730,2736>>,
    <<2738,2739>>, <<2741,2745>>, <<2749,2749>>, <<2768,2768>>,
    <<2784,2785>>, <<2790,2799>>, <<2809,2809>>, <<2821,2828>>,
    <<2831,2832>>, <<2835,2856>>, <<2858,2864>>, <<2866,2867>>,
    <<2869,2873>>, <<2877,2877>>, <<2908,2909>>, <<2911,2913>>,
    <<2918,2927>>, <<2929,2935>>, <<2947,2947>>, <<2949,2954>>,
    <<2958,2960>>, <<2962,2965>>, <<2969,2970>>, <<2972,2972>>,
    <<2974,2975>>, <<2979,2980>>, <<2984,2986>>, <<2990,3001>>,
    <<3024,3024>>, <<3046,3058>>, <<3077,3084>>, <<3086,3088>>,
    <<3090,3112>>, <<3114,3129>>, <<3133,3133>>, <<3160,3162>>,
    <<3165,3165>>, <<3168,3169>>, <<3174,3183>>, <<3192,3198>>,
    <<3200,3200>>, <<3205,3212>>, <<3214,3216>>, <<3218,3240>>,
    <<3242,3251>>, <<3253,3257>>, <<3261,3261>>, <<3293,3294>>,
    <<3296,3297>>, <<3302,3311>>, <<3313,3314>>, <<3332,3340>>,
    <<3342,3344>>, <<3346,3386>>, <<3389,3389>>, <<3406,3406>>,
    <<3412,3414>>, <<3416,3425>>, <<3430,3448>>, <<3450,3455>>,
    <<3461,3478>>, <<3482,3505>>, <<3507,3515>>, <<3517,3517>>,
    <<3520,3526>>, <<3558,3567>>, <<3585,3632>>, <<3634,3635>>,
    <<3648,3654>>, <<3664,3673>>, <<3713,3714>>, <<3716,3716>>,
    <<3718,3722>>, <<3724,3747>>, <<3749,3749>>, <<3751,3760>>,
    <<3762,3763>>, <<3773,3773>>, <<3776,3780>>, <<3782,3782>>,
    <<3792,3801>>, <<3804,3807>>, <<3840,3840>>, <<3872,3891>>,
    <<3904,3911>>, <<3913,3948>>, <<3976,3980>>, <<4096,4138>>,
    <<4159,4169>>, <<4176,4181>>, <<4186,4189>>, <<4193,4193>>,
    <<4197,4198>>, <<4206,4208>>, <<4213,4225>>, <<4238,4238>>,
    <<4240,4249>>, <<4256,4293>>, <<4295,4295>>, <<4301,4301>>,
    <<4304,4346>>, <<4348,4680>>, <<4682,4685>>, <<4688,4694>>,
    <<4696,4696>>, <<4698,4701>>, <<4704,4744>>, <<4746,4749>>,
    <<4752,4784>>, <<4786,4789>>, <<4792,4798>>, <<4800,4800>>,
    <<4802,4805>>, <<4808,4822>>, <<4824,4880>>, <<4882,4885>>,
    <<4888,4954>>, <<4969,4988>>, <<4992,5007>>, <<5024,5109>>,
    <<5112,5117>>, <<5121,5740>>, <<5743,5759>>, <<5761,5786>>,
    <<5792,5866>>, <<5870,5880>>, <<5888,5905>>, <<5919,5937>>,
    <<5952,5969>>, <<5984,5996>>, <<5998,6000>>, <<6016,6067>>,
    <<6103,6103>>, <<6108,6108>>, <<6112,6121>>, <<6128,6137>>,
    <<6160,6169>>, <<6176,6264>>, <<6272,6276>>, <<6279,6312>>,
    <<6314,6314>>, <<6320,6389>>, <<6400,6430>>, <<6470,6509>>,
    <<6512,6516>>, <<6528,6571>>, <<6576,6601>>, <<6608,6618>>,
    <<6656,6678>>, <<6688,6740>>, <<6784,6793>>, <<6800,6809>>,
    <<6823,6823>>, <<6917,6963>>, <<6981,6988>>, <<6992,7001>>,
    <<7043,7072>>, <<7086,7141>>, <<7168,7203>>, <<7232,7241>>,
    <<7245,7293>>, <<7296,7304>>, <<7312,7354>>, <<7357,7359>>,
    <<7401,7404>>, <<7406,7411>>, <<7413,7414>>, <<7418,7418>>,
    <<7424,7615>>, <<7680,7957>>, <<7960,7965>>, <<7968,8005>>,
    <<8008,8013>>, <<8016,8023>>, <<8025,8025>>, <<8027,8027>>,
    <<8029,8029>>, <<8031,8061>>, <<8064,8116>>, <<8118,8124>>,
    <<8126,8126>>, <<8130,8132>>, <<8134,8140>>, <<8144,8147>>,
    <<8150,8155>>, <<8160,8172>>, <<8178,8180>>, <<8182,8188>>,
    <<8304,8305>>, <<8308,8313>>, <<8319,8329>>, <<8336,8348>>,
    <<8450,8450>>, <<8455,8455>>, <<8458,8467>>, <<8469,8469>>,
    <<8473,8477>>, <<8484,8484>>, <<8486,8486>>, <<8488,8488>>,
    <<8490,8493>>, <<8495,8505>>, <<8508,8511>>, <<8517,8521>>,
    <<8526,8526>>, <<8528,8585>>, <<9312,9371>>, <<9450,9471>>,
    <<10102,10131>>, <<11264,11492>>, <<11499,11502>>, <<11506,11507>>,
    <<11517,11517>>, <<11520,11557>>, <<11559,11559>>, <<11565,11565>>,
    <<11568,11623>>, <<11631,11631>>, <<11648,11670>>, <<11680,11686>>,
    <<11688,11694>>, <<11696,11702>>, <<11704,11710>>, <<11712,11718>>,
    <<11720,11726>>, <<11728,11734>>, <<11736,11742>>, <<11823,11823>>,
    <<12293,12295>>, <<12321,12329>>, <<12337,12341>>, <<12344,12348>>,
    <<12353,12438>>, <<12445,12447>>, <<12449,12538>>, <<12540,12543>>,
    <<12549,12591>>, <<12593,12686>>, <<12690,12693>>, <<12704,12735>>,
    <<12784,12799>>, <<12832,12841>>, <<12872,12879>>, <<12881,12895>>,
    <<12928,12937>>, <<12977,12991>>, <<13312,19903>>, <<19968,42124>>,
    <<42192,42237>>, <<42240,42508>>, <<42512,42539>>, <<42560,42606>>,
    <<42623,42653>>, <<42656,42735>>, <<42775,42783>>, <<42786,42888>>,
    <<42891,42954>>, <<42960,42961>>, <<42963,42963>>, <<42965,42969>>,
    <<42994,43009>>, <<43011,43013>>, <<43015,43018>>, <<43020,43042>>,
    <<43056,43061>>, <<43072,43123>>, <<43138,43187>>, <<43216,43225>>,
    <<43250,43255>>, <<43259,43259>>, <<43261,43262>>, <<43264,43301>>,
    <<43312,43334>>, <<43360,43388>>, <<43396,43442>>, <<43471,43481>>,
    <<43488,43492>>, <<43494,43518>>, <<43520,43560>>, <<43584,43586>>,
    <<43588,43595>>, <<43600,43609>>, <<43616,43638>>, <<43642,43642>>,
    <<43646,43695>>, <<43697,43697>>, <<43701,43702>>, <<43705,43709>>,
    <<43712,43712>>, <<43714,43714>>, <<43739,43741>>, <<43744,43754>>,
    <<43762,43764>>, <<43777,43782>>, <<43785,43790>>, <<43793,43798>>,
    <<43808,43814>>, <<43816,43822>>, <<43824,43866>>, <<43868,43881>>,
    <<43888,44002>>, <<44016,44025>>, <<44032,55203>>, <<55216,55238>>,
    <<55243,55291>>, <<63744,64109>>, <<64112,64217>>, <<64256,64262>>,
    <<64275,64279>>, <<64285,64285>>, <<64287,64296>>, <<64298,64310>>,
    <<64312,64316>>, <<64318,64318>>, <<64320,64321>>, <<64323,64324>>,
    <<64326,64433>>, <<64467,64829>>, <<64848,64911>>, <<64914,64967>>,
    <<65008,65019>>, <<65136,65140>>, <<65142,65276>>, <<65296,65305>>,
    <<65313,65338>>, <<65345,65370>>, <<65382,65470>>, <<65474,65479>>,
    <<65482,65487>>, <<65490,65495>>, <<65498,65500>>, <<65536,65547>>,
    <<65549,65574>>, <<65576,65594>>, <<65596,65597>>, <<65599,65613>>,
    <<65616,65629>>, <<65664,65786>>, <<65799,65843>>, <<65856,65912>>,
    <<65930,65931>>, <<66176,66204>>, <<66208,66256>>, <<66273,66299>>,
    <<66304,66339>>, <<66349,66378>>, <<66384,66421>>, <<66432,66461>>,
    <<66464,66499>>, <<66504,66511>>, <<66513,66517>>, <<66560,66717>>,
    <<66720,66729>>, <<66736,66771>>, <<66776,66811>>, <<66816,66855>>,
    <<66864,66915>>, <<66928,66938>>, <<66940,66954>>, <<66956,66962>>,
    <<66964,66965>>, <<66967,66977>>, <<66979,66993>>, <<66995,67001>>,
    <<67003,67004>>, <<67072,67382>>, <<67392,67413>>, <<67424,67431>>,
    <<67456,67461>>, <<67463,67504>>, <<67506,67514>>, <<67584,67589>>,
    <<67592,67592>>, <<67594,67637>>, <<67639,67640>>, <<67644,67644>>,
    <<67647,67669>>, <<67672,67702>>, <<67705,67742>>, <<67751,67759>>,
    <<67808,67826>>, <<67828,67829>>, <<67835,67867>>, <<67872,67897>>,
    <<67968,68023>>, <<68028,68047>>, <<68050,68096>>, <<68112,68115>>,
    <<68117,68119>>, <<68121,68149>>, <<68160,68168>>, <<68192,68222>>,
    <<68224,68255>>, <<68288,68295>>, <<68297,68324>>, <<68331,68335>>,
    <<68352,68405>>, <<68416,68437>>, <<68440,68466>>, <<68472,68497>>,
    <<68521,68527>>, <<68608,68680>>, <<68736,68786>>, <<68800,68850>>,
    <<68858,68899>>, <<68912,68921>>, <<69216,69246>>, <<69248,69289>>,
    <<69296,69297>>, <<69376,69415>>, <<69424,69445>>, <<69457,69460>>,
    <<69488,69505>>, <<69552,69579>>, <<69600,69622>>, <<69635,69687>>,
    <<69714,69743>>, <<69745,69746>>, <<69749,69749>>, <<69763,69807>>,
    <<69840,69864>>, <<69872,69881>>, <<69891,69926>>, <<69942,69951>>,
    <<69956,69956>>, <<69959,69959>>, <<69968,70002>>, <<70006,70006>>,
    <<70019,70066>>, <<70081,70084>>, <<70096,70106>>, <<70108,70108>>,
    <<70113,70132>>, <<70144,70161>>, <<70163,70187>>, <<70272,70278>>,
    <<70280,70280>>, <<70282,70285>>, <<70287,70301>>, <<70303,70312>>,
    <<70320,70366>>, <<70384,70393>>, <<70405,70412>>, <<70415,70416>>,
    <<70419,70440>>, <<70442,70448>>, <<70450,70451>>, <<70453,70457>>,
    <<70461,70461>>, <<70480,70480>>, <<70493,70497>>, <<70656,70708>>,
    <<70727,70730>>, <<70736,70745>>, <<70751,70753>>, <<70784,70831>>,
    <<70852,70853>>, <<70855,70855>>, <<70864,70873>>, <<71040,71086>>,
    <<71128,71131>>, <<71168,71215>>, <<71236,71236>>, <<71248,71257>>,
    <<71296,71338>>, <<71352,71352>>, <<71360,71369>>, <<71424,71450>>,
    <<71472,71483>>, <<71488,71494>>, <<71680,71723>>, <<71840,71922>>,
    <<71935,71942>>, <<71945,71945>>, <<71948,71955>>, <<71957,71958>>,
    <<71960,71983>>, <<71999,71999>>, <<72001,72001>>, <<72016,72025>>,
    <<72096,72103>>, <<72106,72144>>, <<72161,72161>>, <<72163,72163>>,
    <<72192,72192>>, <<72203,72242>>, <<72250,72250>>, <<72272,72272>>,
    <<72284,72329>>, <<72349,72349>>, <<72368,72440>>, <<72704,72712>>,
    <<72714,72750>>, <<72768,72768>>, <<72784,72812>>, <<72818,72847>>,
    <<72960,72966>>, <<72968,72969>>, <<72971,73008>>, <<73030,73030>>,
    <<73040,73049>>, <<73056,73061>>, <<73063,73064>>, <<73066,73097>>,
    <<73112,73112>>, <<73120,73129>>, <<73440,73458>>, <<73648,73648>>,
    <<73664,73684>>, <<73728,74649>>, <<74752,74862>>, <<74880,75075>>,
    <<77712,77808>>, <<77824,78894>>, <<82944,83526>>, <<92160,92728>>,
    <<92736,92766>>, <<92768,92777>>, <<92784,92862>>, <<92864,92873>>,
    <<92880,92909>>, <<92928,92975>>, <<92992,92995>>, <<93008,93017>>,
    <<93019,93025>>, <<93027,93047>>, <<93053,93071>>, <<93760,93846>>,
    <<93952,94026>>, <<94032,94032>>, <<94099,94111>>, <<94176,94177>>,
    <<94179,94179>>, <<94208,100343>>, <<100352,101589>>, <<101632,101640>>,
    <<110576,110579>>, <<110581,110587>>, <<110589,110590>>,
    <<110592,110882>>, <<110928,110930>>, <<110948,110951>>,
    <<110960,111355>>, <<113664,113770>>, <<113776,113788>>,
    <<113792,113800>>, <<113808,113817>>, <<119520,119539>>,
    <<119648,119672>>, <<119808,119892>>, <<119894,119964>>,
    <<119966,119967>>, <<119970,119970>>, <<119973,119974>>,
    <<119977,119980>>, <<119982,119993>>, <<119995,119995>>,
    <<119997,120003>>, <<120005,120069>>, <<120071,120074>>,
    <<120077,120084>>, <<120086,120092>>, <<120094,120121>>,
    <<120123,120126>>, <<120128,120132>>, <<120134,120134>>,
    <<120138,120144>>, <<120146,120485>>, <<120488,120512>>,
    <<120514,120538>>, <<120540,120570>>, <<120572,120596>>,
    <<120598,120628>>, <<120630,120654>>, <<120656,120686>>,
    <<120688,120712>>, <<120714,120744>>, <<120746,120770>>,
    <<120772,120779>>, <<120782,120831>>, <<122624,122654>>,
    <<123136,123180>>, <<123191,123197>>, <<123200,123209>>,
    <<123214,123214>>, <<123536,123565>>, <<123584,123627>>,
    <<123632,123641>>, <<124896,124902>>, <<124904,124907>>,
    <<124909,124910>>, <<124912,124926>>, <<124928,125124>>,
    <<125127,125135>>, <<125184,125251>>, <<125259,125259>>,
    <<125264,125273>>, <<126065,126123>>, <<126125,126127>>,
    <<126129,126132>>, <<126209,126253>>, <<126255,126269>>,
    <<126464,126467>>, <<126469,126495>>, <<126497,126498>>,
    <<126500,126500>>, <<126503,126503>>, <<126505,126514>>,
    <<126516,126519>>, <<126521,126521>>, <<126523,126523>>,
    <<126530,126530>>, <<126535,126535>>, <<126537,126537>>,
    <<126539,126539>>, <<126541,126543>>, <<126545,126546>>,
    <<126548,126548>>, <<126551,126551>>, <<126553,126553>>,
    <<126555,126555>>, <<126557,126557>>, <<126559,126559>>,
    <<126561,126562>>, <<126564,126564>>, <<126567,126570>>,
    <<126572,126578>>, <<126580,126583>>, <<126585,126588>>,
    <<126590,126590>>, <<126592,126601>>, <<126603,126619>>,
    <<126625,126627>>, <<126629,126633>>, <<126635,126651>>,
    <<127232,127244>>, <<130032,130041>>, <<131072,173791>>,
    <<173824,177976>>, <<177984,178205>>, <<178208,183969>>,
    <<183984,191456>>, <<194560,195101>>, <<196608,201546>> >>
Word == UNION {WordRanges[i][1]..WordRanges[i][2] : i \in 1..Len(WordRanges)}

\* A class is a set of characters or the complement of one.
Cls(set)    == [neg |-> FALSE, set |-> set]
NotCls(set) == [neg |-> TRUE, set |-> set]
InClass(c, cls) == IF cls.neg THEN c \notin cls.set ELSE c \in cls.set

ClsSpace      == Cls(Whitespace)                      \* \s
ClsDigit      == Cls(Digit)                           \* \d
ClsWord       == Cls(Word)                            \* \w
ClsUpper      == Cls(Upper)                           \* [A-Z]
ClsUpperSpace == Cls(Upper \cup Whitespace)           \* [A-Z\s]
ClsAddr       == Cls(Upper \cup (48..57) \cup Whitespace) \* [A-Z0-9\s]
ClsNotNL      == NotCls({10})                         \* [^\n] and .

---------------------------------------------------------------------------
(* Python str operations.                                                  *)

\* The TLA+ string spelled by a text, used for dict keys.  A code point
\* that no TLA+ literal holds is spelled by its number.
Chr(c) == IF c \in 32..95 THEN SubSeq(Ascii32, c - 31, c - 31)
          ELSE IF c \in 97..126 THEN SubSeq(Ascii97, c - 96, c - 96)
          ELSE CASE c = 9 -> "\t" [] c = 10 -> "\n" [] c = 12 -> "\f" [] c = 13 -> "\r"
                 [] OTHER -> "\\u" \o ToString(c)
RECURSIVE ToStr(_)
ToStr(s) == IF s = <<>> THEN "" ELSE Chr(Head(s)) \o ToStr(Tail(s))

\* text[pos : pos + len(sub)] == sub   (pos is 1-based)
StartsWith(text, pos, sub) ==
    /\ pos + Len(sub) - 1 <= Len(text)
    /\ \A i \in 1..Len(sub) : text[pos + i - 1] = sub[i]

\* sub in text
Contains(text, sub) == \E p \in 1..(Len(text) + 1) : StartsWith(text, p, sub)

\* str.lstrip(), str.rstrip(), str.strip()
LStrip(s) ==
    IF \A i \in 1..Len(s) : s[i] \in Whitespace THEN <<>>
    ELSE SubSeq(s, CHOOSE p \in 1..Len(s) :
                       s[p] \notin Whitespace /\ \A k \in 1..(p - 1) : s[k] \in Whitespace,
                Len(s))
RStrip(s) ==
    IF \A i \in 1..Len(s) : s[i] \in Whitespace THEN <<>>
    ELSE SubSeq(s, 1, CHOOSE p \in 1..Len(s) :
                          s[p] \notin Whitespace /\ \A k \in (p + 1)..Len(s) : s[k] \in Whitespace)
Strip(s) == RStrip(LStrip(s))

\* str.replace(old, new) for a one-character old
RECURSIVE Replace(_,_,_)
Replace(s, old, new) ==
    IF s = <<>> THEN <<>>
    ELSE (IF Head(s) = old THEN new ELSE <<Head(s)>>) \o Replace(Tail(s), old, new)

\* str.lower() of a benefit label: match.group(1) of the fringe pattern is
\* one of its ten ASCII alternatives, so only A-Z change.
LowerOf == [c \in Upper |-> c + 32]
ToLower(s) == [i \in 1..Len(s) |-> IF s[i] \in Upper THEN LowerOf[s[i]] ELSE s[i]]

\* Python values held in the dicts.
PyStr(s)      == [type |-> "str", str |-> s]            \* s a text
\* A float (IEEE 754 binary64): the value m * 2^e, m the decimal string of
\* an odd integer below 2^53; 0.0 is PyFloat("0", 0), infinity is
\* PyFloat("inf", 0).  Each float has one such form (2.5 is PyFloat("5", -1),
\* 40.0 is PyFloat("5", 3)).
PyFloat(m, e) == [type |-> "float", m |-> m, e |-> e]

---------------------------------------------------------------------------
(* float(s) for s of the shape \d+\.\d+ : the binary64 nearest to the      *)
(* decimal, ties to even, infinity beyond the range.  The decimal is held  *)
(* exactly as a natural number A of all its digits over B = 10^f, both     *)
(* sequences of limbs in base 10^9, least significant first.               *)

Base == 1000000000
Pow10 == <<1, 10, 100, 1000, 10000, 100000, 1000000, 10000000, 100000000>>
Max(a, b) == IF a >= b THEN a ELSE b

\* Every decimal digit \d matches counts with its digit value.
DigitVal(c) == c - (CHOOSE z \in DigitZeros : z <= c /\ c <= z + 9)
DotAt(s) == CHOOSE i \in 1..Len(s) : s[i] = 46
\* The digit values of s, the "." left out.
Digits(s) == [i \in 1..(Len(s) - 1) |-> DigitVal(IF i < DotAt(s) THEN s[i] ELSE s[i + 1])]

\* The limbs of the natural number spelled by the digits d.
RECURSIVE ChunkVal(_,_,_)
ChunkVal(d, lo, hi) == IF lo > hi THEN 0 ELSE 10 * ChunkVal(d, lo, hi - 1) + d[hi]
Limbs(d) ==
    [j \in 1..((Len(d) + 8) \div 9) |->
        ChunkVal(d, Max(1, Len(d) - 9 * j + 1), Len(d) - 9 * (j - 1))]
\* 10^f
TenTo(f) == [j \in 1..((f \div 9) + 1) |-> IF j = (f \div 9) + 1 THEN Pow10[(f % 9) + 1] ELSE 0]

Limb(x, i) == IF i <= Len(x) THEN x[i] ELSE 0
\* x < y
Less(x, y) ==
    \E j \in 1..Max(Len(x), Len(y)) :
        /\ Limb(x, j) < Limb(y, j)
        /\ \A k \in (j + 1)..Max(Len(x), Len(y)) : Limb(x, k) = Limb(y, k)
\* 2 * x : twice a limb is even, so a carry never travels further than the
\* next limb.
Double(x) ==
    [i \in 1..(IF Len(x) > 0 /\ 2 * x[Len(x)] >= Base THEN Len(x) + 1 ELSE Len(x)) |->
        ((2 * Limb(x, i)) % Base) + (IF i > 1 /\ 2 * x[i - 1] >= Base THEN 1 ELSE 0)]
\* x * 2^n, by halves of n (x is computed before it is shifted further)
RECURSIVE Shl(_,_)
Shl(x, n) == IF n = 0 \/ Len(x) = 0 THEN x
             ELSE IF n = 1 THEN Double(x)
             ELSE Shl(Shl(x, n \div 2), n - (n \div 2))
\* x - y for x >= y : limb i borrows when the nearest lower limb where x
\* and y differ has the smaller limb in x.
Borrow(x, y, i) ==
    \E j \in 1..(i - 1) :
        /\ Limb(x, j) < Limb(y, j)
        /\ \A k \in (j + 1)..(i - 1) : Limb(x, k) = Limb(y, k)
Sub(x, y) ==
    [i \in 1..Len(x) |->
        (Base + Limb(x, i) - Limb(y, i) - (IF Borrow(x, y, i) THEN 1 ELSE 0)) % Base]

\* The n high bits of the quotient of r by t / 2^(n-1), for r < 2t, most
\* significant first, and 2^n times the remainder.
RECURSIVE DivLoop(_,_,_,_)
DivLoop(r, t, n, bits) ==
    IF n = 0 THEN [bits |-> bits, r |-> r]
    ELSE IF Less(r, t) THEN DivLoop(Double(r), t, n - 1, Append(bits, 0))
    ELSE DivLoop(Double(Sub(r, t)), t, n - 1, Append(bits, 1))

\* Round to nearest, ties to even: up when the remainder is above the half,
\* or is the half and the last bit is odd.
RoundUp(q, t) == Less(t, q.r) \/ (~Less(q.r, t) /\ q.bits[Len(q.bits)] = 1)
LastZero(bits) == CHOOSE p \in 1..Len(bits) :
                      bits[p] = 0 /\ \A k \in (p + 1)..Len(bits) : bits[k] = 1
Inc(bits) ==
    IF \A i \in 1..Len(bits) : bits[i] = 1
    THEN <<1>> \o [i \in 1..Len(bits) |-> 0]
    ELSE [i \in 1..Len(bits) |->
            IF i < LastZero(bits) THEN bits[i] ELSE IF i = LastZero(bits) THEN 1 ELSE 0]

\* The decimal string of the natural number spelled by bits (below 10^18).
RECURSIVE BitsVal(_,_,_)
BitsVal(bits, i, acc) ==
    IF i > Len(bits) THEN acc
    ELSE BitsVal(bits, i + 1, [Double(acc) EXCEPT ![1] = @ + bits[i]])
DecStr(x) ==
    IF Len(x) >= 2 /\ x[2] > 0
    THEN ToString(x[2]) \o SubSeq(ToString(Base + x[1]), 2, 10)
    ELSE ToString(x[1])

FirstOne(bits) == CHOOSE p \in 1..Len(bits) : bits[p] = 1 /\ \A k \in 1..(p - 1) : bits[k] = 0
LastOne(bits) == CHOOSE p \in 1..Len(bits) :
                     bits[p] = 1 /\ \A k \in (p + 1)..Len(bits) : bits[k] = 0
\* The float of value bits * 2^e.
Canon(bits, e) ==
    IF \A i \in 1..Len(bits) : bits[i] = 0 THEN PyFloat("0", 0)
    ELSE IF Len(bits) - FirstOne(bits) + e >= 1024 THEN PyFloat("inf", 0)
    ELSE PyFloat(DecStr(BitsVal(SubSeq(bits, 1, LastOne(bits)), 1, <<0>>)),
                 e + Len(bits) - LastOne(bits))
Pack(q, t, e) == Canon(IF RoundUp(q, t) THEN Inc(q.bits) ELSE q.bits, e)
\* The float nearest to a / (t / 2^52) * 2^e, for a < 2t.
Nearest(a, t, e) == Pack(DivLoop(a, t, 53, <<>>), t, e)

\* The least j with a < t * 2^(j+1).
Excess(a, t) == CHOOSE j \in 0..12 :
                    Less(a, Shl(t, j + 1)) /\ \A i \in 0..(j - 1) : ~Less(a, Shl(t, i + 1))
\* The float nearest to a / b, given k <= log2(a / b) < k + 12: 53 bits of
\* quotient from the leading bit, or the bits above 2^-1074 when the value
\* is below the normal range.
Scaled(a, b, a1, t, k, j) ==
    IF k - 52 + j < -1074 THEN Nearest(Shl(a, 1074), Shl(b, 52), -1074)
    ELSE Nearest(a1, Shl(t, j), k - 52 + j)
Rounded(a, b, a1, t, k) == Scaled(a, b, a1, t, k, Excess(a1, t))
Nearest64(a, b, k) ==
    Rounded(a, b, Shl(a, Max(52 - k, 0)), Shl(b, Max(k - 52, 0) + 52), k)

\* The number of digits of d from its first nonzero digit on.
Significant(d) == Len(d) + 1 - (CHOOSE p \in 1..Len(d) :
                                   d[p] # 0 /\ \A k \in 1..(p - 1) : d[k] = 0)
\* The float of the digits d with f fraction digits.  With n significant
\* digits the value lies in [10^(n-f-1), 10^(n-f)): at or above 10^309 it
\* is beyond the range, below 10^-325 it rounds to zero, and in between
\* its binary logarithm is at least (n-f-1) * 3.3219 - 2.
FloatOf(d, f, n) ==
    IF n - f - 1 >= 309 THEN PyFloat("inf", 0)
    ELSE IF n - f - 1 <= -326 THEN PyFloat("0", 0)
    ELSE Nearest64(Limbs(d), TenTo(f), (((n - f - 1) * 33219) \div 10000) - 2)
FloatOfDigits(d, f) ==
    IF \A i \in 1..Len(d) : d[i] = 0 THEN PyFloat("0", 0)
    ELSE FloatOf(d, f, Significant(d))
float(s) == FloatOfDigits(Digits(s), Len(s) - DotAt(s))

---------------------------------------------------------------------------
(* Python's re: a pattern is a sequence of nodes, matched left to right    *)
(* with backtracking; a greedy repetition tries the longest run first, an  *)
(* alternation tries its branches in order.                                *)

Lit(s)             == [t |-> "lit", s |-> s]
Rep(cls, min, max) == [t |-> "rep", cls |-> cls, min |-> min, max |-> max]
Plus(cls)          == Rep(cls, 1, -1)
Star(cls)          == Rep(cls, 0, -1)
Alt(branches)      == [t |-> "alt", alts |-> branches]
Open(g)            == [t |-> "open", g |-> g]
Close(g)           == [t |-> "close", g |-> g]

NoMatch == [ok |-> FALSE]

\* Number of capture groups of a pattern.
NGroups(re) == Cardinality({k \in 1..Len(re) : re[k].t = "open"})

\* Length of the longest run of class characters at pos, at most max (-1: any).
RunLen(text, pos, cls, max) ==
    LET limit == IF max < 0 \/ pos + max - 1 > Len(text) THEN Len(text)
                 ELSE pos + max - 1
        stops == {i \in pos..limit : ~InClass(text[i], cls)}
        stop  == IF stops = {} THEN limit + 1
                 ELSE CHOOSE i \in stops : \A j \in stops : i <= j
    IN stop - pos

\* Of the tries of a greedy repetition (one per run length n), the match
\* after the longest run; of the tries of an alternation (one per branch
\* j) or of a search (one per start j), the first match.
LongestTry(tries) ==
    IF \A x \in tries : ~x.r.ok THEN NoMatch
    ELSE (CHOOSE x \in tries : x.r.ok /\ \A y \in tries : y.r.ok => y.n <= x.n).r
FirstTry(tries) ==
    IF \A x \in tries : ~x.r.ok THEN NoMatch
    ELSE LET x == CHOOSE x \in tries : x.r.ok /\ \A y \in tries : y.r.ok => x.j <= y.j
         IN [ok |-> TRUE, start |-> x.j, end |-> x.r.end, caps |-> x.r.caps]

\* Match nodes k.. of re against text at pos; caps[g] = <<start, end>>.
\* A greedy repetition takes the longest run after which the rest of the
\* pattern matches; an alternation takes its first branch after which the
\* rest matches.
RECURSIVE MatchAt(_,_,_,_,_)
MatchAt(re, k, text, pos, caps) ==
    IF k > Len(re) THEN [ok |-> TRUE, end |-> pos, caps |-> caps]
    ELSE CASE re[k].t = "lit" ->
                IF StartsWith(text, pos, re[k].s)
                THEN MatchAt(re, k + 1, text, pos + Len(re[k].s), caps)
                ELSE NoMatch
           [] re[k].t = "rep" ->
                LongestTry({[n |-> n, r |-> MatchAt(re, k + 1, text, pos + n, caps)] :
                               n \in re[k].min..RunLen(text, pos, re[k].cls, re[k].max)})
           [] re[k].t = "alt" ->
                FirstTry({[j |-> j,
                           r |-> IF StartsWith(text, pos, re[k].alts[j])
                                 THEN MatchAt(re, k + 1, text,
                                              pos + Len(re[k].alts[j]), caps)
                                 ELSE NoMatch] : j \in 1..Len(re[k].alts)})
           [] re[k].t = "open" ->
                MatchAt(re, k + 1, text, pos, [caps EXCEPT ![re[k].g] = <<pos, pos>>])
           [] re[k].t = "close" ->
                MatchAt(re, k + 1, text, pos, [caps EXCEPT ![re[k].g][2] = pos])

\* re.search from position from: the match with the leftmost start.
SearchFrom(re, text, from) ==
    FirstTry({[j |-> p,
               r |-> MatchAt(re, 1, text, p, [g \in 1..NGroups(re) |-> <<0, 0>>])] :
                 p \in from..(Len(text) + 1)})
re_search(re, text) == SearchFrom(re, text, 1)

\* re.finditer: the non-overlapping matches, left to right.
RECURSIVE FindFrom(_,_,_)
MatchThenRest(re, text, r) ==
    IF ~r.ok THEN <<>>
    ELSE <<r>> \o FindFrom(re, text, IF r.end > r.start THEN r.end ELSE r.end + 1)
FindFrom(re, text, from) == MatchThenRest(re, text, SearchFrom(re, text, from))
re_finditer(re, text) == FindFrom(re, text, 1)

\* match.group(g), g >= 1, of a pattern that has group g
Group(text, m, g) == SubSeq(text, m.caps[g][1], m.caps[g][2] - 1)

---------------------------------------------------------------------------
(* Python dicts: functions from key strings to values.                     *)

EmptyDict == <<>>
SetItem(d, k, v) == (k :> v) @@ d        \* d[k] = v
Update(d, other) == other @@ d           \* d.update(other)

\* Outcome of a method call on the parser state self.
Return(self, v) == [self |-> self, status |-> "returned", value |-> v]
Raise(self, e)  == [self |-> self, status |-> "raised", exc |-> e]

\* Optional[Dict]
PyNone      == [none |-> TRUE]
Some(d)     == [none |-> FALSE, dict |-> d]

---------------------------------------------------------------------------
(* The patterns of PayrollPDFParser.                                       *)

NL == Text("\n")

\* (\d+\.\d+) as capture group g
Decimal(g) == <<Open(g), Plus(ClsDigit), Lit(Text(".")), Plus(ClsDigit), Close(g)>>

\* <label>\s*\n([^\n]+)
LabelThenLine(label) ==
    <<Lit(label), Star(ClsSpace), Lit(NL), Open(1), Plus(ClsNotNL), Close(1)>>
\* <label>\s*([^\n]+)
LabelThenRest(label) ==
    <<Lit(label), Star(ClsSpace), Open(1), Plus(ClsNotNL), Close(1)>>

\* job_patterns, in dict order
job_patterns == <<
    [key |-> "job_name",
     re  |-> LabelThenLine(Text("Job"))],
    [key |-> "job_number",
     re  |-> LabelThenRest(Text("Job Number:"))],
    [key |-> "week_ending",
     re  |-> LabelThenRest(Text("Week Ending:"))],
    [key |-> "payroll_number",
     re  |-> LabelThenRest(Text("Payroll #"))],
    [key |-> "contractor_name",
     re  |-> LabelThenLine(Text("Contractor"))],
    [key |-> "contractor_address",
     re  |-> <<Lit(Text("BUTLER, WI 53007"))>>],
    [key |-> "customer_name",
     re  |-> LabelThenLine(Text("Customer"))],
    [key |-> "customer_address",
     re  |-> <<Lit(Text("BROOKFIELD, WI 53005"))>>] >>

JobKeys == {job_patterns[i].key : i \in 1..Len(job_patterns)}

NameMarker  == Text("Name / Address")
HoursMarker == Text("Hours Worked This Job")

\* ([A-Z\s]+[A-Z])\s+(\*\*\*-\*\*-\d{4})
name_pattern ==
    <<Open(1), Plus(ClsUpperSpace), Rep(ClsUpper, 1, 1), Close(1), Plus(ClsSpace),
      Open(2), Lit(Text("***-**-")), Rep(ClsDigit, 4, 4), Close(2)>>

\* ([A-Z0-9\s]+)\s+([A-Z]+)\s+(\w+)\s+(\d+)
address_pattern ==
    <<Open(1), Plus(ClsAddr), Close(1), Plus(ClsSpace),
      Open(2), Plus(ClsUpper), Close(2), Plus(ClsSpace),
      Open(3), Plus(ClsWord), Close(3), Plus(ClsSpace),
      Open(4), Plus(ClsDigit), Close(4)>>

\* Class\s+.+\s+([A-Z]+)\s+Male
class_pattern ==
    <<Lit(Text("Class")), Plus(ClsSpace), Plus(ClsNotNL), Plus(ClsSpace),
      Open(1), Plus(ClsUpper), Close(1), Plus(ClsSpace), Lit(Text("Male"))>>

\* (Single|Married)\s+\d+
marital_pattern ==
    <<Open(1), Alt(<< Text("Single"), Text("Married") >>),
      Close(1), Plus(ClsSpace), Plus(ClsDigit)>>

\* R:\s+(\d+\.\d+).*O:\s+(\d+\.\d+)
hours_pattern ==
    <<Lit(Text("R:")), Plus(ClsSpace)>> \o Decimal(1) \o
    <<Star(ClsNotNL), Lit(Text("O:")), Plus(ClsSpace)>> \o Decimal(2)

\* (\d+\.\d+)\s+(\d+\.\d+)\s+(\d+\.\d+)\s+(\d+\.\d+)
pay_pattern ==
    Decimal(1) \o <<Plus(ClsSpace)>> \o Decimal(2) \o <<Plus(ClsSpace)>> \o
    Decimal(3) \o <<Plus(ClsSpace)>> \o Decimal(4)

\* The benefit labels, in the order of the alternation.
BenefitLabels == <<
    Text("AMF 494"),
    Text("ANNUITY"),
    Text("H&W"),
    Text("JATC 494"),
    Text("LMCC 494"),
    Text("NEBF 494"),
    Text("NECA-494"),
    Text("NEIF-494"),
    Text("PENSION"),
    Text("VAC/HOL") >>

\* (AMF 494|...|VAC/HOL)\s+(\d+\.\d+)\s+(\d+\.\d+)
fringe_pattern ==
    <<Open(1), Alt(BenefitLabels), Close(1), Plus(ClsSpace)>> \o Decimal(2) \o
    <<Plus(ClsSpace)>> \o Decimal(3)

\* DUES\s+(\d+\.\d+)
dues_pattern == <<Lit(Text("DUES")), Plus(ClsSpace)>> \o Decimal(1)

\* Total\s+(\d+\.\d+)
total_pattern == <<Lit(Text("Total")), Plus(ClsSpace)>> \o Decimal(1)

---------------------------------------------------------------------------
(* Job info of a first page: the loop over job_patterns.  match.group(1)   *)
(* of a pattern without a capture group raises IndexError.                 *)

\* The value stored for one pattern, given its match m.
job_value(re, first_page, m) ==
    IF m.ok
    THEN IF NGroups(re) < 1 THEN [raised |-> TRUE, exc |-> "IndexError"]
         ELSE [raised |-> FALSE, value |-> PyStr(Strip(Group(first_page, m, 1)))]
    ELSE [raised |-> FALSE, value |-> PyStr(Text(""))]

RECURSIVE JobInfoLoop(_,_,_)
job_step(first_page, i, acc, v) ==
    IF v.raised THEN v
    ELSE JobInfoLoop(first_page, i + 1, SetItem(acc, job_patterns[i].key, v.value))
JobInfoLoop(first_page, i, acc) ==
    IF i > Len(job_patterns) THEN [raised |-> FALSE, value |-> acc]
    ELSE job_step(first_page, i, acc,
                  job_value(job_patterns[i].re, first_page,
                            re_search(job_patterns[i].re, first_page)))

\* The key stem of a benefit label.
benefit_name(label) ==
    ToLower(Replace(Replace(Replace(label, Ord[" "], Text("_")), Ord["&"], Text("and")),
                    Ord["-"], Text("_")))

\* The loop over the fringe matches: later matches overwrite earlier ones.
\* employee[f"{benefit_name}_rate"] = rate; employee[f"{benefit_name}_amount"] = amount
store_fringe_keep_first(employee, fields) == Update(fields, employee)
store_fringe(employee, fields) == Update(employee, fields)
fringe_fields(stem, rate, amount) ==
    SetItem(SetItem(EmptyDict, stem \o "_rate", rate), stem \o "_amount", amount)
RECURSIVE FringeLoop(_,_,_,_)
FringeLoop(page_text, matches, i, employee) ==
    IF i > Len(matches) THEN employee
    ELSE FringeLoop(page_text, matches, i + 1,
             store_fringe(employee,
                    fringe_fields(ToStr(benefit_name(Group(page_text, matches[i], 1))),
                                  float(Group(page_text, matches[i], 2)),
                                  float(Group(page_text, matches[i], 3)))))

\* The keys each step stores, given the step's match m (none without a match).
name_fields(page_text, m) ==
    [name |-> PyStr(Strip(Group(page_text, m, 1))),
     ssn  |-> PyStr(Group(page_text, m, 2))]
address_fields_without_zip(page_text, m) ==
    IF m.ok THEN [address |-> PyStr(Strip(Group(page_text, m, 1))),
                  city    |-> PyStr(Strip(Group(page_text, m, 2))),
                  state   |-> PyStr(Strip(Group(page_text, m, 3)))]
    ELSE EmptyDict
address_fields(page_text, m) ==
    IF m.ok THEN [address |-> PyStr(Strip(Group(page_text, m, 1))),
                  city    |-> PyStr(Strip(Group(page_text, m, 2))),
                  state   |-> PyStr(Strip(Group(page_text, m, 3))),
                  zip     |-> PyStr(Strip(Group(page_text, m, 4)))]
    ELSE EmptyDict
class_fields(page_text, m) ==
    IF m.ok THEN [job_class |-> PyStr(Strip(Group(page_text, m, 1)))]
    ELSE EmptyDict
marital_fields(page_text, m) ==
    IF m.ok THEN [marital_status |-> PyStr(Strip(Group(page_text, m, 1)))]
    ELSE EmptyDict
hours_fields(page_text, m) ==
    IF m.ok THEN [regular_hours  |-> float(Group(page_text, m, 1)),
                  overtime_hours |-> float(Group(page_text, m, 2))]
    ELSE EmptyDict
pay_fields(page_text, m) ==
    IF m.ok THEN [pay_rate    |-> float(Group(page_text, m, 1)),
                  gross_pay   |-> float(Group(page_text, m, 2)),
                  federal_tax |-> float(Group(page_text, m, 3)),
                  net_pay     |-> float(Group(page_text, m, 4))]
    ELSE EmptyDict
dues_fields(page_text, m) ==
    IF m.ok THEN [dues_amount |-> float(Group(page_text, m, 1))] ELSE EmptyDict
total_fields(page_text, m) ==
    IF m.ok THEN [total_deductions |-> float(Group(page_text, m, 1))] ELSE EmptyDict

\* The steps in source order; each assigns its keys to the dict built so far.
employee_steps(page_text, name_match) ==
    LET e1 == name_fields(page_text, name_match)
        e2 == Update(e1, address_fields(page_text, re_search(address_pattern, page_text)))
        e3 == Update(e2, class_fields(page_text, re_search(class_pattern, page_text)))
        e4 == Update(e3, marital_fields(page_text, re_search(marital_pattern, page_text)))
        e5 == Update(e4, hours_fields(page_text, re_search(hours_pattern, page_text)))
        e6 == Update(e5, pay_fields(page_text, re_search(pay_pattern, page_text)))
        e7 == FringeLoop(page_text, re_finditer(fringe_pattern, page_text), 1, e6)
        e8 == Update(e7, dues_fields(page_text, re_search(dues_pattern, page_text)))
    IN Update(e8, total_fields(page_text, re_search(total_pattern, page_text)))

name_gate(page_text, name_match) ==
    IF name_match.ok THEN Some(employee_steps(page_text, name_match))
    ELSE PyNone                          \* no employee data on this page

_extract_employee_info(page_text) ==
    name_gate(page_text, re_search(name_pattern, page_text))

---------------------------------------------------------------------------
(* The documents of the model: page texts as pdfplumber extracts them.     *)

PageHeader ==
    Text("Job\nELM ST\nJob Number: J42\nWeek Ending: 01/05\nPayroll # 7\nContractor\nACME\nCustomer\nCITY")
PageHeaderNoNumber ==
    Text("Job\nELM ST\nWeek Ending: 01/05")
PageButler ==
    Text("Contractor\nACME\nBUTLER, WI 53007")
PageBrookfield ==
    Text("Customer\nCITY\nBROOKFIELD, WI 53005")
PageScenario ==
    Text("Name / Address\nHours Worked This Job\nJOHN A SMITH ***-**-1234\n123 MAIN ST MADISON WI 53701\nR: 40.00 O: 5.00\n25.00 1100.00 150.00 900.00\nPENSION 2.50 100.00\nDUES 15.00\nTotal 265.00")
PageScenarioInline ==
    Text("JOHN A SMITH ***-**-1234 123 MAIN ST MADISON WI 53701 R: 40.00 O: 5.00 25.00 1100.00 150.00 900.00 PENSION 2.50 100.00 DUES 15.00 Total 265.00\nName / Address Hours Worked This Job")
PageNoIdentity ==
    Text("Name / Address\nHours Worked This Job\nR: 8.00 O: 1.00")
PageFringe ==
    Text("Name / Address\nHours Worked This Job\nAL B ***-**-1234\nPENSION 1.00 2.00\nH&W 1.25 9.00\nPENSION 3.50 4.00")
PageOneMarker ==
    Text("Name / Address\nAL B ***-**-1234")
PagePartial ==
    Text("Name / Address\nHours Worked This Job\nSUE ***-**-0007\nClass 1 ELEC Male\nMarried 2\nR: 8.00 X\n1.00 2.00 3.00\nDUES x")
\* A page with no-break spaces (U+00A0) and the Arabic-Indic decimal 3.5
\* (U+0663 "." U+0665): "AL B ***-**-1234" and "H&W 3.5 4.00".
PageUnicode ==
    Text("Name / Address\nHours Worked This Job\nAL") \o <<160>> \o
    Text("B ***-**-1234\nH&W") \o <<160, 1635, 46, 1637>> \o Text(" 4.00")
\* (a page without text)
PageEmpty == <<>>

PageCatalogue ==
    {PageHeader, PageHeaderNoNumber, PageButler, PageBrookfield, PageScenario,
     PageScenarioInline, PageNoIdentity, PageFringe, PageOneMarker,
     PagePartial, PageUnicode, PageEmpty}

SeqsUpTo(S, n) == UNION {[1..k -> S] : k \in 0..n}

Docs ==
    {[readable |-> FALSE, pages |-> <<>>]} \cup
    {[readable |-> TRUE, pages |-> ps] : ps \in SeqsUpTo(PageCatalogue, MaxPages)}

\* The per-page results for the page texts of the model, computed once.
employee_info == [page_text \in PageCatalogue |-> _extract_employee_info(page_text)]
first_page_info == [first_page \in PageCatalogue |-> JobInfoLoop(first_page, 1, EmptyDict)]
eligible == [page_text \in PageCatalogue |->
                Contains(page_text, NameMarker) /\ Contains(page_text, HoursMarker)]

---------------------------------------------------------------------------
(* The methods of PayrollPDFParser, as functions of the document d behind  *)
(* pdf_path and the instance state self = [text_pages, job_info,           *)
(* employees].  An exception ends the method where it is raised: the       *)
(* assignments made before it stay, those after it are not made.           *)

\* The page texts pdfplumber yields that are truthy (non-empty).
RECURSIVE NonEmptyTexts(_)
NonEmptyTexts(pages) ==
    IF pages = <<>> THEN <<>>
    ELSE (IF Head(pages) # <<>> THEN <<Head(pages)>> ELSE <<>>)
         \o NonEmptyTexts(Tail(pages))

init(d) == [text_pages |-> <<>>, job_info |-> EmptyDict, employees |-> <<>>]

extract_text_swallowing(d, self) ==
    IF ~d.readable THEN Return(self, self.text_pages)
    ELSE LET tp == self.text_pages \o NonEmptyTexts(d.pages) IN
         Return([self EXCEPT !.text_pages = tp], tp)
extract_text(d, self) ==
    IF ~d.readable THEN Raise(self, "OpenError")     \* pdfplumber.open raises
    ELSE LET tp == self.text_pages \o NonEmptyTexts(d.pages) IN
         Return([self EXCEPT !.text_pages = tp], tp)

\* "if not self.text_pages: self.extract_text()"
ensure_text(d, self) ==
    IF self.text_pages = <<>> THEN extract_text(d, self)
    ELSE Return(self, self.text_pages)

first_page_of(pages) == IF pages # <<>> THEN pages[1] ELSE <<>>

set_job_info(self, ji) ==
    IF ji.raised THEN Raise(self, ji.exc)
    ELSE Return([self EXCEPT !.job_info = ji.value], ji.value)
job_info_step(r0) ==
    IF r0.status = "raised" THEN r0
    ELSE set_job_info(r0.self, first_page_info[first_page_of(r0.self.text_pages)])
extract_job_info(d, self) == job_info_step(ensure_text(d, self))

\* One pass of the loop over self.text_pages: pages without both markers are
\* skipped; a record that is None (or empty) is dropped; the others get the
\* job info merged in and are appended.
page_step(page_is_eligible, employee, info, acc) ==
    IF ~page_is_eligible THEN acc
    ELSE IF employee.none \/ employee.dict = EmptyDict THEN acc
         ELSE Append(acc, Update(employee.dict, info))

RECURSIVE RecordsLoop(_,_,_,_)
RecordsLoop(pages, i, info, acc) ==
    IF i > Len(pages) THEN acc
    ELSE RecordsLoop(pages, i + 1, info,
             page_step(eligible[pages[i]], employee_info[pages[i]], info, acc))

set_employees(self, recs) == Return([self EXCEPT !.employees = recs], recs)
records_step(r0) ==
    IF r0.status = "raised" THEN r0
    ELSE set_employees(r0.self, RecordsLoop(r0.self.text_pages, 1, r0.self.job_info, <<>>))
extract_employee_records(d, self) == records_step(ensure_text(d, self))

\* parse: the three calls in order; an exception of one skips the rest.
parse_job_info(d, r1) ==
    IF r1.status = "raised" THEN r1 ELSE extract_job_info(d, r1.self)
parse_records(d, r2) ==
    IF r2.status = "raised" THEN r2 ELSE extract_employee_records(d, r2.self)
parse_return(r3) ==
    IF r3.status = "raised" THEN r3
    ELSE Return(r3.self, [job_info  |-> r3.self.job_info,
                          employees |-> r3.self.employees])
parse(d, self) ==
    parse_return(parse_records(d, parse_job_info(d, extract_text(d, self))))

---------------------------------------------------------------------------
(* The field mapper and the built-in mappings (main.py).                   *)

default_mapping ==
    [EmployeeName |-> "name", SSN |-> "ssn", Address |-> "address",
     City |-> "city", State |-> "state", PayRate |-> "pay_rate",
     RegularHours |-> "regular_hours", OvertimeHours |-> "overtime_hours",
     GrossPay |-> "gross_pay", NetPay |-> "net_pay"]

wisdot_mapping ==
    [EmployeeName |-> "name", SSN |-> "ssn", Address |-> "address",
     City |-> "city", State |-> "state", MaritalStatus |-> "marital_status",
     JobClass |-> "job_class", PayRate |-> "pay_rate",
     RegularHours |-> "regular_hours", OvertimeHours |-> "overtime_hours",
     GrossPay |-> "gross_pay", NetPay |-> "net_pay",
     TotalDeductions |-> "total_deductions",
     AMF494Rate |-> "amf_494_rate", AMF494Amount |-> "amf_494_amount",
     AnnuityRate |-> "annuity_rate", AnnuityAmount |-> "annuity_amount",
     HWRate |-> "h_and_w_rate", HWAmount |-> "h_and_w_amount",
     PensionRate |-> "pension_rate", PensionAmount |-> "pension_amount",
     DuesAmount |-> "dues_amount", JobName |-> "job_name",
     JobNumber |-> "job_number", WeekEnding |-> "week_ending"]

\* What load_mappings() finds in the mappings directory: the two files
\* create_default_templates writes and the user's own mapping files.
mappings ==
    [default |-> default_mapping,
     wisdot  |-> wisdot_mapping,
     custom  |-> [Who |-> "name", Also |-> "name", Bonus |-> "bonus",
                  Pension |-> "pension_rate"],
     empty   |-> EmptyDict]

\* One output row: the loop over mapping.items().
map_row_dropping_missing(employee, mapping) ==
    [template_field \in {f \in DOMAIN mapping : mapping[f] \in DOMAIN employee} |->
        employee[mapping[template_field]]]
map_row(employee, mapping) ==
    [template_field \in DOMAIN mapping |->
        IF mapping[template_field] \in DOMAIN employee
        THEN employee[mapping[template_field]]
        ELSE PyStr(Text(""))]

map_fields(emps, mapping) ==
    [i \in 1..Len(emps) |-> map_row(emps[i], mapping)]

---------------------------------------------------------------------------
(* The state machine: one parser instance at a time works on the document; *)
(* every public method may be called in any order, a new instance may be   *)
(* constructed, and map_fields may be applied to self.employees.           *)

Self == [text_pages |-> text_pages, job_info |-> job_info, employees |-> employees]

Init ==
    /\ doc \in Docs
    /\ text_pages = <<>>
    /\ job_info = EmptyDict
    /\ employees = <<>>
    /\ inst = 1
    /\ calls = 0
    /\ steps = 0
    /\ last = [op |-> "__init__", status |-> "returned", inst |-> 1, fresh |-> TRUE]
    /\ parse_results = <<>>

\* The effect of a method call with outcome r.
Outcome(op, r) ==
    /\ text_pages' = r.self.text_pages
    /\ job_info' = r.self.job_info
    /\ employees' = r.self.employees
    /\ calls' = calls + 1
    /\ steps' = steps + 1
    /\ last' = IF r.status = "returned"
               THEN [op |-> op, status |-> "returned", inst |-> inst,
                     fresh |-> (calls = 0), value |-> r.value]
               ELSE [op |-> op, status |-> "raised", inst |-> inst,
                     fresh |-> (calls = 0), exc |-> r.exc]
    /\ UNCHANGED <<doc, inst>>

Construct ==
    /\ steps < MaxCalls
    /\ text_pages' = init(doc).text_pages
    /\ job_info' = init(doc).job_info
    /\ employees' = init(doc).employees
    /\ inst' = inst + 1
    /\ calls' = 0
    /\ steps' = steps + 1
    /\ last' = [op |-> "__init__", status |-> "returned", inst |-> inst + 1,
                fresh |-> TRUE]
    /\ UNCHANGED <<doc, parse_results>>

CallExtractText ==
    /\ steps < MaxCalls
    /\ Outcome("extract_text", extract_text(doc, Self))
    /\ UNCHANGED parse_results

CallExtractJobInfo ==
    /\ steps < MaxCalls
    /\ Outcome("extract_job_info", extract_job_info(doc, Self))
    /\ UNCHANGED parse_results

CallExtractEmployeeRecords ==
    /\ steps < MaxCalls
    /\ Outcome("extract_employee_records", extract_employee_records(doc, Self))
    /\ UNCHANGED parse_results

ParseOutcome(r) ==
    /\ Outcome("parse", r)
    /\ parse_results' = IF r.status = "returned"
                        THEN Append(parse_results, [inst |-> inst, fresh |-> (calls = 0),
                                                    value |-> r.value])
                        ELSE parse_results

CallParse ==
    /\ steps < MaxCalls
    /\ ParseOutcome(parse(doc, Self))

CallMapFields ==
    /\ steps < MaxCalls
    /\ \E name \in DOMAIN mappings :
         last' = [op |-> "map_fields", status |-> "returned", inst |-> inst,
                  fresh |-> FALSE, mapping |-> name, input |-> employees,
                  value |-> map_fields(employees, mappings[name])]
    /\ steps' = steps + 1
    /\ UNCHANGED <<doc, text_pages, job_info, employees, inst, calls, parse_results>>

Next ==
    \/ Construct
    \/ CallExtractText
    \/ CallExtractJobInfo
    \/ CallExtractEmployeeRecords
    \/ CallParse
    \/ CallMapFields

Spec == Init /\ [][Next]_vars

---------------------------------------------------------------------------
(* What the claims speak of, stated from the specification's words and     *)
(* evaluated per page text of the model.                                   *)

\* The 8 fixed keys of Job Info.
JobInfoKeys ==
    {"job_name", "job_number", "week_ending", "payroll_number", "contractor_name",
     "contractor_address", "customer_name", "customer_address"}

\* Whether the pattern of the i-th job key matches the page.
pattern_matches ==
    [p \in PageCatalogue |->
        [i \in 1..Len(job_patterns) |-> re_search(job_patterns[i].re, p).ok]]

\* A page with both marker phrases that matches the identity pattern.
qualifies ==
    [p \in PageCatalogue |->
        /\ Contains(p, NameMarker)
        /\ Contains(p, HoursMarker)
        /\ re_search(name_pattern, p).ok]
QualifyingPages(pages) == SelectSeq(pages, LAMBDA p : qualifies[p])
EligiblePages(pages) ==
    SelectSeq(pages, LAMBDA p : Contains(p, NameMarker) /\ Contains(p, HoursMarker))

\* The name and the masked SSN of a qualifying page.
identity ==
    [p \in PageCatalogue |->
        IF qualifies[p] THEN name_fields(p, re_search(name_pattern, p)) ELSE EmptyDict]

\* The first page with text of a document, "" when it has none.
FirstText(d) == first_page_of(NonEmptyTexts(d.pages))

\* "<label> <decimal> <decimal>"
Triple(label) ==
    <<Lit(label), Plus(ClsSpace)>> \o Decimal(1) \o <<Plus(ClsSpace)>> \o Decimal(2)
TripleAt(label, p, pos) == MatchAt(Triple(label), 1, p, pos, <<<<0, 0>>, <<0, 0>>>>)
Occurrences(label, p) == {pos \in 1..Len(p) : TripleAt(label, p, pos).ok}
LastOccurrence(label, p) ==
    CHOOSE pos \in Occurrences(label, p) : \A q \in Occurrences(label, p) : q <= pos
\* Per page and label: the decimals of the last occurrence of the triple.
last_triple ==
    [p \in PageCatalogue |->
        [i \in 1..Len(BenefitLabels) |->
            IF Occurrences(BenefitLabels[i], p) = {} THEN [found |-> FALSE]
            ELSE [found  |-> TRUE,
                  count  |-> Cardinality(Occurrences(BenefitLabels[i], p)),
                  rate   |-> float(Group(p, TripleAt(BenefitLabels[i], p,
                                   LastOccurrence(BenefitLabels[i], p)), 1)),
                  amount |-> float(Group(p, TripleAt(BenefitLabels[i], p,
                                   LastOccurrence(BenefitLabels[i], p)), 2))]]]

\* The stem of each benefit label: lower case, " " -> "_", "&" -> "and", "-" -> "_".
Stems == <<"amf_494", "annuity", "handw", "jatc_494", "lmcc_494", "nebf_494",
           "neca_494", "neif_494", "pension", "vac/hol">>

IsMethodCall == last.op \in {"extract_text", "extract_job_info",
                             "extract_employee_records", "parse"}

---------------------------------------------------------------------------
(* The claims.                                                             *)

\* C1: any two parse() calls on the same document return equal job_info and
\* equal employees, whether made on the same instance or on fresh instances.
C1_ParseIdempotent ==
    \A i, j \in 1..Len(parse_results) :
        /\ parse_results[i].value.job_info = parse_results[j].value.job_info
        /\ parse_results[i].value.employees = parse_results[j].value.employees

\* C2: extract_job_info on a readable document returns, without raising, a
\* dict with exactly the 8 fixed keys, every value a string, and "" for
\* every key whose pattern does not match the first page.
C2_JobInfoTotal ==
    (last.op = "extract_job_info" /\ doc.readable) =>
        /\ last.status = "returned"
        /\ DOMAIN last.value = JobInfoKeys
        /\ \A i \in 1..Len(job_patterns) :
             /\ last.value[job_patterns[i].key].type = "str"
             /\ ~pattern_matches[FirstText(doc)][i] =>
                    last.value[job_patterns[i].key] = PyStr(Text(""))

\* C3: parse() on a fresh parser of a readable document returns, without
\* raising, exactly one record per qualifying page (both markers and the
\* identity pattern), in page order: fewer records than eligible pages when
\* an eligible page fails the identity gate, none when no page qualifies.
C3_OneRecordPerQualifyingPage ==
    (last.op = "parse" /\ last.fresh /\ doc.readable) =>
        /\ last.status = "returned"
        /\ Len(last.value.employees) = Len(QualifyingPages(doc.pages))
        /\ \A i \in 1..Len(last.value.employees) :
             /\ last.value.employees[i]["name"] = identity[QualifyingPages(doc.pages)[i]]["name"]
             /\ last.value.employees[i]["ssn"] = identity[QualifyingPages(doc.pages)[i]]["ssn"]
        /\ Len(QualifyingPages(doc.pages)) < Len(EligiblePages(doc.pages)) =>
             Len(last.value.employees) < Len(EligiblePages(doc.pages))

\* C4: every record returned by extract_employee_records or parse, after any
\* sequence of public calls on the instance, holds all 8 job-info keys with
\* the values extracted from the document's first page.
C4_RecordsCarryJobInfo ==
    (last.op \in {"extract_employee_records", "parse"} /\ last.status = "returned") =>
        LET recs == IF last.op = "parse" THEN last.value.employees ELSE last.value IN
        \A i \in 1..Len(recs) : \A k \in JobInfoKeys :
            /\ k \in DOMAIN recs[i]
            /\ ~first_page_info[FirstText(doc)].raised =>
                   recs[i][k] = first_page_info[FirstText(doc)].value[k]

\* The record of the concrete scenario and the page texts that hold its two
\* markers and seven fragments.  The floats in m * 2^e form: 40.0 = 5 * 8,
\* 1100.0 = 275 * 4, 150.0 = 75 * 2, 900.0 = 225 * 4, 2.5 = 5 / 2,
\* 100.0 = 25 * 4.
ScenarioRecord ==
    [name |-> PyStr(Text("JOHN A SMITH")), ssn |-> PyStr(Text("***-**-1234")),
     address |-> PyStr(Text("123 MAIN ST")), city |-> PyStr(Text("MADISON")),
     state |-> PyStr(Text("WI")), zip |-> PyStr(Text("53701")),
     regular_hours |-> PyFloat("5", 3), overtime_hours |-> PyFloat("5", 0),
     pay_rate |-> PyFloat("25", 0), gross_pay |-> PyFloat("275", 2),
     federal_tax |-> PyFloat("75", 1), net_pay |-> PyFloat("225", 2),
     pension_rate |-> PyFloat("5", -1), pension_amount |-> PyFloat("25", 2),
     dues_amount |-> PyFloat("15", 0), total_deductions |-> PyFloat("265", 0)]
ScenarioPages == {PageScenario, PageScenarioInline}

\* C5: per-page extraction of a scenario page yields the scenario's record.
C5_ScenarioRecord ==
    (/\ last.op = "extract_employee_records"
     /\ last.status = "returned"
     /\ Len(text_pages) = 1
     /\ text_pages[1] \in ScenarioPages) =>
        /\ Len(last.value) = 1
        /\ \A k \in DOMAIN ScenarioRecord :
             k \in DOMAIN last.value[1] /\ last.value[1][k] = ScenarioRecord[k]

\* C6: map_fields returns one row per record, in order; each row has exactly
\* the mapping's template fields; a field holds the record's value at the
\* mapped source key when the record has that key, "" otherwise; the records
\* are left as they were.
C6_MapFieldsTotal ==
    last.op = "map_fields" =>
        /\ last.status = "returned"
        /\ Len(last.value) = Len(last.input)
        /\ \A i \in 1..Len(last.input) :
             /\ DOMAIN last.value[i] = DOMAIN mappings[last.mapping]
             /\ \A f \in DOMAIN mappings[last.mapping] :
                  IF mappings[last.mapping][f] \in DOMAIN last.input[i]
                  THEN last.value[i][f] = last.input[i][mappings[last.mapping][f]]
                  ELSE last.value[i][f] = PyStr(Text(""))
        /\ employees = last.input

C6_Witness ==
    /\ last.op = "map_fields"
    /\ last.mapping = "custom"
    /\ Len(last.input) = 2
    /\ "pension_rate" \in DOMAIN last.input[1]
    /\ "pension_rate" \notin DOMAIN last.input[2]
    /\ last.value[2]["Pension"] = PyStr(Text(""))
    /\ last.value[1]["Bonus"] = PyStr(Text(""))

\* C7: for every qualifying page and every benefit label with one or more
\* "<label> <decimal> <decimal>" triples on it, the page's record holds under
\* <stem>_rate and <stem>_amount the decimals of the last triple in the text.
C7_LastMatchWins ==
    (last.op = "extract_employee_records" /\ last.status = "returned") =>
        /\ Len(last.value) = Len(QualifyingPages(text_pages))
        /\ \A i \in 1..Len(last.value) : \A b \in 1..Len(BenefitLabels) :
             LET t == last_triple[QualifyingPages(text_pages)[i]][b] IN
             t.found =>
                /\ (Stems[b] \o "_rate") \in DOMAIN last.value[i]
                /\ (Stems[b] \o "_amount") \in DOMAIN last.value[i]
                /\ last.value[i][Stems[b] \o "_rate"] = t.rate
                /\ last.value[i][Stems[b] \o "_amount"] = t.amount

C7_Witness ==
    /\ last.op = "extract_employee_records"
    /\ last.status = "returned"
    /\ text_pages = <<PageFringe>>
    /\ last_triple[PageFringe][9].count = 2
    /\ last.value[1]["pension_rate"] = PyFloat("7", -1)
    /\ last.value[1]["pension_amount"] = PyFloat("1", 2)

\* C8: on a document that cannot be opened, parse, extract_text,
\* extract_job_info and extract_employee_records end in a failure that
\* reaches the caller; no parse result exists.
C8_UnreadablePropagates ==
    ~doc.readable =>
        /\ IsMethodCall => last.status = "raised"
        /\ parse_results = <<>>

C8_Witness ==
    /\ ~doc.readable
    /\ last.op = "parse"
    /\ last.status = "raised"
    /\ steps = 2

\* The keys the Record Extractor can store in an employee record.
StorableKeys ==
    {"name", "ssn", "address", "city", "state", "zip", "job_class",
     "marital_status", "regular_hours", "overtime_hours", "pay_rate", "gross_pay",
     "federal_tax", "net_pay", "dues_amount", "total_deductions"}
    \cup JobInfoKeys
    \cup {ToStr(benefit_name(BenefitLabels[b])) \o "_rate" : b \in 1..Len(BenefitLabels)}
    \cup {ToStr(benefit_name(BenefitLabels[b])) \o "_amount" : b \in 1..Len(BenefitLabels)}

\* C9: every source key of the built-in mappings is a key the extractor can
\* store, so an H&W line of a page reaches the HWRate column of the WISDOT row.
C9_BuiltinKeysStorable ==
    (last.op = "map_fields" /\ last.mapping \in {"default", "wisdot"}) =>
        /\ \A f \in DOMAIN mappings[last.mapping] :
               mappings[last.mapping][f] \in StorableKeys
        /\ \A i \in 1..Len(last.input) :
               (/\ last.mapping = "wisdot"
                /\ Len(last.input) = Len(QualifyingPages(text_pages))
                /\ last_triple[QualifyingPages(text_pages)[i]][3].found) =>
                   last.value[i]["HWRate"] =
                       last_triple[QualifyingPages(text_pages)[i]][3].rate

\* C10: in every extracted record name and ssn are both present; address,
\* city, state, zip are all present or all absent; so are the two hours keys
\* and the four pay keys; <stem>_rate is present exactly when <stem>_amount is.
AllOrNone(rec, keys) == keys \subseteq DOMAIN rec \/ keys \cap DOMAIN rec = {}
C10_FieldGroups ==
    \A i \in 1..Len(employees) :
        /\ {"name", "ssn"} \subseteq DOMAIN employees[i]
        /\ AllOrNone(employees[i], {"address", "city", "state", "zip"})
        /\ AllOrNone(employees[i], {"regular_hours", "overtime_hours"})
        /\ AllOrNone(employees[i], {"pay_rate", "gross_pay", "federal_tax", "net_pay"})
        /\ \A b \in 1..Len(Stems) :
             AllOrNone(employees[i], {Stems[b] \o "_rate", Stems[b] \o "_amount"})

C10_Witness ==
    /\ Len(employees) = 2
    /\ {"address", "city", "state", "zip", "pay_rate", "regular_hours",
        "pension_rate", "pension_amount"} \subseteq DOMAIN employees[1]
    /\ {"address", "zip", "regular_hours", "pay_rate"} \cap DOMAIN employees[2] = {}
    /\ {"handw_rate", "handw_amount"} \subseteq DOMAIN employees[2]

====
